---------------------------- MODULE Spec2Model ----------------------------
(***************************************************************************)
(* A model of python/databases/visibilitymodel.py (class VisibilityModel). *)
(*                                                                         *)
(* Python values are tagged records so that None, arrays, tuples and       *)
(* exceptions can be compared with each other.  Candidate indices are      *)
(* 1-based here (Python's index i is i+1 in the model).                    *)
(*                                                                         *)
(* The specifications share the variables:                                 *)
(*   Spec          construction, load, save and generate                   *)
(*   SpecQuery     computeValidTransform, one step per collaborator call   *)
(*   SpecPrune     pruneTransformations, one step per collaborator call    *)
(*   SpecScenario  pruneTransformations with its default arguments on the  *)
(*                 ten-pose scenario                                       *)
(*   SpecAgain     pruneTransformations called a second time with another  *)
(*                 numminneighs on the same reachability index             *)
(*   SpecFrame     queries and pruning in any order on one model           *)
(*   SpecAll       every operation of the model, in any order              *)
(***************************************************************************)
EXTENDS Integers, Sequences, FiniteSets, TLC

VARIABLES
    \* ---- fields of the VisibilityModel object
    visibilitytransforms,   \* None or Arr(sequence of pose ids)
    rmodel,                 \* None or Held (the reachability model)
    convexhull,             \* None, or what an artifact held
    KK, dims,               \* Unset until generate or load sets them
    preshapes,              \* None or Arr(sequence of gripper joint values)
    manipname, sensorname,  \* the recorded names (None or a name)
    manip,                  \* the manipulator preprocess made active
    attachedsensor,         \* the sensor preprocess bound
    ikmodel,                \* the inverse kinematics model preprocess made
    \* ---- the scene
    armjoints,              \* the robot's arm joint values
    gripperjoints,          \* the robot's gripper joint values
    enabled,                \* the enable flag of every body of the environment
    \* ---- the persistence collaborator
    artifact,               \* what the model's file holds
    \* ---- the call in progress and the last call's outcome
    pc,                     \* "idle", or the place of the call in progress
    ret,                    \* how the last call ended
    \* ---- locals of computeValidTransform
    args,                   \* the keyword arguments of the call in progress
    order, pos, s, validjoints,
    savedjoints,            \* what `with self.robot` saved
    \* ---- instrumentation of the collaborators (what a mock would record)
    ikLog,                  \* calls of manip.FindIKSolution in this query
    visLog,                 \* calls of visualprob.ComputeVisibility in this query
    \* ---- locals of pruneTransformations
    pargs,                  \* the keyword arguments of the call in progress
    localtransforms,        \* the local name `visibilitytransforms`
    rload,                  \* what rmodel.load() answered: "notcalled", "loaded", "failed"
    invz,                   \* invertPoses(self.visibilitytransforms)[:,6], when computed
    transdensity,           \* kFRSearchArray(..)[2], when computed
    previous,               \* numminneighs and result of the call before, when the
                            \* call in hand repeats it on the same index
    \* ---- locals of generate
    bodies,                 \* the saved (body, IsEnabled()) pairs
    enabledAtCall,          \* the enable flags when generate was called
    \* ---- instrumentation of the collaborators of preprocess and generate
    camLog,                 \* the call of visualprob.SetCameraAndTarget made by the
                            \* last load or generate: the name passed, the name answered
    generated               \* what visualprob.ProcessVisibilityExtents answered in
                            \* the last generate

modelVars == <<visibilitytransforms, rmodel>>
sceneVars == <<armjoints, gripperjoints>>
queryVars == <<args, order, pos, s, validjoints, savedjoints, ikLog, visLog>>
pruneVars == <<pargs, localtransforms, rload, invz, transdensity, previous>>
fieldVars == <<convexhull, KK, dims, preshapes, manipname, sensorname, manip, attachedsensor,
               ikmodel>>
generateVars == <<bodies, enabledAtCall>>
mockVars == <<camLog, generated>>
lifeVars == <<fieldVars, enabled, artifact, generateVars, mockVars>>
vars == <<modelVars, sceneVars, pc, ret, queryVars, pruneVars, lifeVars>>

---------------------------------------------------------------------------
\* Bounds of the model.
MaxCand == 3
\* The largest neighbour count the reachability index answers.
MaxCount == 2
\* The largest distance (third translation component of an inverted pose).
MaxDist == 1
\* The number of different preshapes a caller passes to generate.
MaxPreshape == 2

\* The pruning scenario: the number of poses, and how many of them have a
\* neighbour count of at least the default numminneighs.
ScenarioPoses == 10
ScenarioDense == 4

\* The defaults of pruneTransformations (line 216); thresh in hundredths.
DefaultThresh == 4
DefaultNumMinNeighs == 10

---------------------------------------------------------------------------
\* Python values.
None == [kind |-> "None"]
Arr(seq) == [kind |-> "array", v |-> seq]
List(seq) == [kind |-> "list", v |-> seq]
Joints(j) == [kind |-> "joints", v |-> j]
Held == [kind |-> "held"]
Num(x) == [kind |-> "number", v |-> x]
\* A local name that no assignment has bound yet.
Unbound == [kind |-> "unbound"]
\* An attribute that no assignment has set yet (reading it raises AttributeError).
Unset == [kind |-> "unset"]
Bool(b) == [kind |-> "bool", v |-> b]
Name(n) == [kind |-> "name", v |-> n]

\* What the model's file can hold: nothing, bytes that cannot be read back,
\* an object that is not the 5-tuple, or a saved 5-tuple.
Missing == [kind |-> "missing"]
Unreadable == [kind |-> "unreadable"]
Malformed == [kind |-> "malformed"]
\* (variant: the candidate set and the preshapes in each other's place)
Tuple5_swapped(vt, hull, kk, dm, ps) ==
    [kind |-> "tuple", visibilitytransforms |-> ps, convexhull |-> hull,
     KK |-> kk, dims |-> dm, preshapes |-> vt]
Tuple5(vt, hull, kk, dm, ps) ==
    [kind |-> "tuple", visibilitytransforms |-> vt, convexhull |-> hull,
     KK |-> kk, dims |-> dm, preshapes |-> ps]

\* The environment: the robot, the target and the other bodies; the robot's
\* manipulators and sensors.
OtherBodies == {"body1", "body2"}
Bodies == {"robot", "target"} \cup OtherBodies
ManipNames == {Name("arm1"), Name("arm2")}
SensorNames == {Name("camera")}

\* How a call ended: the operation, and the value returned or the exception raised.
Exception(name) == [kind |-> "exception", name |-> name]
Returned(op, val) == [op |-> op, how |-> "return", val |-> val]
Raised(op, name) == [op |-> op, how |-> "raise", val |-> Exception(name)]
NoCall == [op |-> "none", how |-> "nocall", val |-> None]

Range(f) == {f[x] : x \in DOMAIN f}
Iota(n) == [k \in 1..n |-> k]

---------------------------------------------------------------------------
\* computeValidTransform (lines 194-214).

\* random.permutation(n): any permutation of the n indices.
permutation(n) == {p \in [1..n -> 1..n] : \A a, b \in 1..n : p[a] = p[b] => a = b}

\* xrange(n): the indices in stored order.
IdentityOrder(n) == Iota(n)

\* order = random.permutation(len(..)) if randomize else xrange(len(..))
ScanOrders(randomize, n) ==
    IF randomize THEN permutation(n) ELSE {IdentityOrder(n)}

\* `for i in order`: the candidate examined at position p of the scan.
CandidateAt(ord, p) == ord[p]

\* manip.FindIKSolution(Tgrasp,checkcollision): the solver's answer for
\* candidate i is either no solution or the joint configuration that reaches
\* Tgrasp; which one is the solver's (and the scene's) choice.
IKSolutionFor(i) == Joints(i)
IKAnswers(i) == {None, IKSolutionFor(i)}

\* `if s is not None`
\* (variant: the test left out)
HasSolution_always(sol) == TRUE
HasSolution(sol) == sol # None

\* `if computevisibility and not self.visualprob.ComputeVisibility(): continue`
\* whether the oracle is consulted at all (short-circuit `and`).
ConsultsOracle(computevisibility) == computevisibility

\* `continue` / end of the loop body: the scan goes on with the next position.
\* (variant: `break` in place of `continue`)
NextPosition_break(p, n) == n + 1
NextPosition(p, n) == p + 1

\* `validjoints.append((s,i))`
Appended(vj, sol, i) == Append(vj, <<sol, i>>)

\* `if not returnall: return validjoints`
\* (variant: the early return left out)
ReturnsAtOnce_never(returnall) == FALSE
ReturnsAtOnce(returnall) == ~returnall

\* What the function returns when the loop is exhausted: control falls off
\* the end of the function body (line 214 is the last statement, inside the
\* loop), so the value is None whatever validjoints holds.
FallOffEnd(vj) == None

\* `with self.robot:` restores the robot's saved state on every exit.
\* (variant: the state is left as the scan put it)
RestoredJoints_left(saved, current) == current
RestoredJoints(saved, current) == saved

\* self.robot.SetJointValues(s,self.manip.GetArmJoints()): the joints named
\* by the second argument take the values; <<arm, gripper>> afterwards.
\* (variant: the values go to every joint of the robot)
SetJointValues_all(sol, arm, gripper) == <<sol, sol>>
SetJointValues(sol, arm, gripper) == <<sol, gripper>>

\* The locals and the collaborators' logs of a query that has ended are gone
\* when another operation is called.
QueryLocalsGone ==
    /\ args' = [returnall |-> FALSE, checkcollision |-> TRUE,
                computevisibility |-> TRUE, randomize |-> FALSE]
    /\ order' = <<>>
    /\ pos' = 1
    /\ s' = None
    /\ validjoints' = <<>>
    /\ savedjoints' = <<armjoints, gripperjoints>>
    /\ ikLog' = <<>>
    /\ visLog' = <<>>

\* The same for the locals of pruneTransformations.
PruneLocalsGone ==
    /\ pargs' = [thresh |-> DefaultThresh, numminneighs |-> DefaultNumMinNeighs,
                 maxdist |-> None, translationonly |-> TRUE]
    /\ localtransforms' = Unbound
    /\ rload' = "notcalled"
    /\ invz' = None
    /\ transdensity' = None
    /\ previous' = None

\* lines 194-200: enter `with self.robot`, validjoints = [], draw the order.
\* len(None) raises TypeError when the model holds no candidate set.
computeValidTransform(returnall, checkcollision, computevisibility, randomize) ==
    /\ pc = "idle"
    /\ args' = [returnall |-> returnall, checkcollision |-> checkcollision,
                computevisibility |-> computevisibility, randomize |-> randomize]
    /\ savedjoints' = <<armjoints, gripperjoints>>
    /\ validjoints' = <<>>
    /\ ikLog' = <<>>
    /\ visLog' = <<>>
    /\ s' = None
    /\ pos' = 1
    /\ IF visibilitytransforms = None
       THEN /\ order' = <<>>
            /\ pc' = "idle"
            /\ ret' = Raised("computeValidTransform", "TypeError")
       ELSE /\ order' \in ScanOrders(randomize, Len(visibilitytransforms.v))
            /\ pc' = "FindIKSolution"
            /\ ret' = NoCall
    /\ PruneLocalsGone
    /\ UNCHANGED <<modelVars, sceneVars, lifeVars>>

\* lines 201-208: take the next candidate, ask the IK solver, and with a
\* solution set the arm joints to it.
FindIKSolution ==
    /\ pc = "FindIKSolution"
    /\ pos <= Len(order)
    /\ LET i == CandidateAt(order, pos) IN
       \/ \E sol \in IKAnswers(i) :
            /\ ikLog' = Append(ikLog, [i |-> i, checkcollision |-> args.checkcollision,
                                       sol |-> sol])
            /\ s' = sol
            /\ IF HasSolution(sol)
               THEN /\ armjoints' = SetJointValues(sol, armjoints, gripperjoints)[1]
                    /\ gripperjoints' = SetJointValues(sol, armjoints, gripperjoints)[2]
                    /\ pc' = "ComputeVisibility"
                    /\ pos' = pos
               ELSE /\ UNCHANGED sceneVars
                    /\ pc' = "FindIKSolution"
                    /\ pos' = NextPosition(pos, Len(order))
            /\ ret' = ret
       \/ \* the solver raises: the exception leaves through `with self.robot`
          /\ ikLog' = Append(ikLog, [i |-> i, checkcollision |-> args.checkcollision,
                                     sol |-> Exception("openrave_exception")])
          /\ armjoints' = RestoredJoints(savedjoints, <<armjoints, gripperjoints>>)[1]
          /\ gripperjoints' = RestoredJoints(savedjoints, <<armjoints, gripperjoints>>)[2]
          /\ pc' = "idle"
          /\ ret' = Raised("computeValidTransform", "openrave_exception")
          /\ UNCHANGED <<s, pos>>
    /\ UNCHANGED <<modelVars, args, order, validjoints, savedjoints, visLog, pruneVars, lifeVars>>

\* lines 209-213: the visibility test and the acceptance of the candidate.
ComputeVisibility ==
    /\ pc = "ComputeVisibility"
    /\ LET i == CandidateAt(order, pos)
           seen == [i |-> i, arm |-> armjoints, gripper |-> gripperjoints]
           Reject == /\ pos' = NextPosition(pos, Len(order))
                     /\ pc' = "FindIKSolution"
                     /\ UNCHANGED <<validjoints, ret, sceneVars>>
           Accept == /\ validjoints' = Appended(validjoints, s, i)
                     /\ IF ReturnsAtOnce(args.returnall)
                        THEN /\ ret' = Returned("computeValidTransform", List(validjoints'))
                             /\ pc' = "idle"
                             /\ pos' = pos
                             /\ armjoints' = RestoredJoints(savedjoints, <<armjoints, gripperjoints>>)[1]
                             /\ gripperjoints' = RestoredJoints(savedjoints, <<armjoints, gripperjoints>>)[2]
                        ELSE /\ pos' = NextPosition(pos, Len(order))
                             /\ pc' = "FindIKSolution"
                             /\ UNCHANGED <<ret, sceneVars>>
       IN
       IF ConsultsOracle(args.computevisibility)
       THEN \/ /\ visLog' = Append(visLog, seen @@ [visible |-> "yes"])
               /\ Accept
            \/ /\ visLog' = Append(visLog, seen @@ [visible |-> "no"])
               /\ Reject
            \/ \* the oracle raises
               /\ visLog' = Append(visLog, seen @@ [visible |-> "raise"])
               /\ armjoints' = RestoredJoints(savedjoints, <<armjoints, gripperjoints>>)[1]
               /\ gripperjoints' = RestoredJoints(savedjoints, <<armjoints, gripperjoints>>)[2]
               /\ pc' = "idle"
               /\ ret' = Raised("computeValidTransform", "openrave_exception")
               /\ UNCHANGED <<pos, validjoints>>
       ELSE /\ visLog' = visLog
            /\ Accept
    /\ UNCHANGED <<modelVars, args, order, s, savedjoints, ikLog, pruneVars, lifeVars>>

\* line 201 with the order exhausted, then the end of the function body.
ScanExhausted ==
    /\ pc = "FindIKSolution"
    /\ pos > Len(order)
    /\ ret' = Returned("computeValidTransform", FallOffEnd(validjoints))
    /\ pc' = "idle"
    /\ armjoints' = RestoredJoints(savedjoints, <<armjoints, gripperjoints>>)[1]
    /\ gripperjoints' = RestoredJoints(savedjoints, <<armjoints, gripperjoints>>)[2]
    /\ UNCHANGED <<modelVars, queryVars, pruneVars, lifeVars>>

\* lines 107-109: a new InverseKinematicsModel object, loaded or generated;
\* it is another object than the one the model held.
InverseKinematicsModel(held) ==
    [kind |-> "ikmodel", id |-> IF held = None THEN 0 ELSE 1 - held.id]

\* A model right after construction (lines 58-70): no candidate set, no
\* preshapes, KK and dims not set; the manipulator name recorded from the
\* robot's active manipulator and preprocess passed, so the active
\* manipulator agrees with a recorded name and the named sensor is bound.
Constructed ==
    /\ convexhull = None
    /\ KK = Unset
    /\ dims = Unset
    /\ preshapes = None
    /\ manipname \in {None} \cup ManipNames
    /\ manip \in ManipNames
    /\ manipname # None => manip = manipname
    /\ sensorname \in SensorNames
    /\ attachedsensor = sensorname
    /\ ikmodel = InverseKinematicsModel(None)
    /\ bodies = <<>>
    /\ camLog = None
    /\ generated = None

\* No call in progress, none made yet, the robot at rest.
AtRest ==
    /\ armjoints = Joints(0)
    /\ gripperjoints = Joints(0)
    /\ pc = "idle"
    /\ ret = NoCall
    /\ pargs = [thresh |-> DefaultThresh, numminneighs |-> DefaultNumMinNeighs,
                maxdist |-> None, translationonly |-> TRUE]
    /\ localtransforms = Unbound
    /\ rload = "notcalled"
    /\ invz = None
    /\ transdensity = None
    /\ previous = None
    /\ args = [returnall |-> FALSE, checkcollision |-> TRUE,
               computevisibility |-> TRUE, randomize |-> FALSE]
    /\ order = <<>>
    /\ pos = 1
    /\ s = None
    /\ validjoints = <<>>
    /\ savedjoints = <<Joints(0), Joints(0)>>
    /\ ikLog = <<>>
    /\ visLog = <<>>

\* The part of the state that queries and pruning leave alone, fixed: a
\* fresh model, or one that generate populated with a sensor that reported
\* no sensor object (so KK and dims are not set); one manipulator recorded
\* and active, every body enabled, no file.
Settled ==
    /\ convexhull = None
    /\ KK = Unset
    /\ dims = Unset
    /\ preshapes = IF visibilitytransforms = None THEN None ELSE Arr(<<Joints(0)>>)
    /\ manipname = Name("arm1")
    /\ manip = manipname
    /\ sensorname \in SensorNames
    /\ attachedsensor = sensorname
    /\ ikmodel = InverseKinematicsModel(None)
    /\ bodies = <<>>
    /\ camLog = None
    /\ generated = None
    /\ enabled = [b \in Bodies |-> TRUE]
    /\ enabledAtCall = enabled
    /\ artifact = Missing

\* The states a query can start from: no candidate set yet (a fresh model),
\* or a candidate set of up to MaxCand poses.
InitQuery ==
    /\ visibilitytransforms \in {None} \cup {Arr(Iota(n)) : n \in 0..MaxCand}
    /\ rmodel = None
    /\ AtRest
    /\ Settled

NextQuery ==
    \/ \E returnall, checkcollision, computevisibility, randomize \in BOOLEAN :
          computeValidTransform(returnall, checkcollision, computevisibility, randomize)
    \/ FindIKSolution
    \/ ComputeVisibility
    \/ ScanExhausted

SpecQuery == InitQuery /\ [][NextQuery]_vars



---------------------------------------------------------------------------
\* pruneTransformations (lines 216-233).

\* Reading a local name: a name assigned somewhere in the function body is
\* local in all of it, and reading it before any assignment raises
\* UnboundLocalError.  Line 222 reads `visibilitytransforms`, which lines
\* 225 and 227 assign.
FallbackResult(local) ==
    IF local = Unbound
    THEN Raised("pruneTransformations", "UnboundLocalError")
    ELSE Returned("pruneTransformations", Arr(local.v))

\* a[mask]: the elements of a at the positions where the mask holds, in order.
MaskSelect(a, mask) ==
    LET keep == SelectSeq(Iota(Len(a)), LAMBDA k : mask[k])
    IN  [j \in 1..Len(keep) |-> a[keep[j]]]

\* self.visibilitytransforms[invertPoses(self.visibilitytransforms)[:,6]<maxdist]
MaxdistFilter(vt, dist, maxdist) ==
    MaskSelect(vt, [k \in 1..Len(vt) |-> dist[k] < maxdist])

\* flatnonzero(transdensity>numminneighs): the positions, ascending.
\* (variant: >= in place of >)
DenseIndices_atleast(density, numminneighs) ==
    SelectSeq(Iota(Len(density)), LAMBDA k : density[k] >= numminneighs)
\* (variant: < in place of >)
DenseIndices_below(density, numminneighs) ==
    SelectSeq(Iota(Len(density)), LAMBDA k : density[k] < numminneighs)
DenseIndices(density, numminneighs) ==
    SelectSeq(Iota(Len(density)), LAMBDA k : density[k] > numminneighs)

\* argsort(a): a permutation that puts a in non-decreasing order; numpy's
\* default sort is not stable, so equal keys may come in any order.
\* (variant: the opposite order)
argsort_descending(a) ==
    {p \in permutation(Len(a)) : \A j, k \in 1..Len(a) : j < k => a[p[j]] >= a[p[k]]}
argsort(a) ==
    {p \in permutation(Len(a)) : \A j, k \in 1..Len(a) : j < k => a[p[j]] <= a[p[k]]}

\* visibilitytransforms[I[argsort(-transdensity[I])]]: every value the
\* expression of line 232 can have.
PrunedResults(local, density, numminneighs) ==
    LET I == DenseIndices(density, numminneighs)
        key == [j \in 1..Len(I) |-> 0 - density[I[j]]]
    IN  {[j \in 1..Len(I) |-> local[I[p[j]]]] : p \in argsort(key)}

\* `if translationonly:` ... else line 233.
\* (variant: full-pose requests treated as translation-only)
IsTranslationOnly_fallback(translationonly) == TRUE
IsTranslationOnly(translationonly) == translationonly

\* Lines 225 and 227 assign the local name visibilitytransforms, and line
\* 232 returns; none of them assigns self.visibilitytransforms.
\* (variant: the local name is the attribute)
AttributeAfterLocal_aliased(attribute, local) == local
AttributeAfterLocal(attribute, local) == attribute

\* lines 216-218: the call; without a reachability model a new one is made.
pruneTransformations(thresh, numminneighs, maxdist, translationonly) ==
    /\ pc = "idle"
    /\ pargs' = [thresh |-> thresh, numminneighs |-> numminneighs,
                 maxdist |-> maxdist, translationonly |-> translationonly]
    /\ localtransforms' = Unbound
    /\ rload' = "notcalled"
    /\ invz' = None
    /\ transdensity' = None
    /\ previous' = None
    /\ ret' = NoCall
    /\ IF rmodel = None
       THEN /\ rmodel' = Held
            /\ pc' = "rmodel.load"
       ELSE /\ rmodel' = rmodel
            /\ pc' = "ComputeNN"
    /\ QueryLocalsGone
    /\ UNCHANGED <<visibilitytransforms, sceneVars, lifeVars>>

\* lines 219-222: the reachability database is found or not; the module
\* never generates it.
rmodelLoad ==
    /\ pc = "rmodel.load"
    /\ \/ /\ rload' = "loaded"
          /\ pc' = "ComputeNN"
          /\ UNCHANGED <<rmodel, ret>>
       \/ /\ rload' = "failed"
          /\ rmodel' = None
          /\ ret' = FallbackResult(localtransforms)
          /\ pc' = "idle"
    /\ UNCHANGED <<visibilitytransforms, sceneVars, queryVars, lifeVars,
                   pargs, localtransforms, invz, transdensity, previous>>

\* lines 223-229 and 233: the kd-tree, the maxdist pre-filter, the poses in
\* the manipulator's base frame, and the refusal of full-pose pruning.
\* invertPoses and poseMultArrayT take an array of poses; with no candidate
\* set (None) the call ends with the binding's argument error.
ComputeNN(Distances) ==
    /\ pc = "ComputeNN"
    /\ IF visibilitytransforms = None
       THEN /\ ret' = Raised("pruneTransformations", "TypeError")
            /\ pc' = "idle"
            /\ localtransforms' = IF pargs.maxdist = None THEN None ELSE localtransforms
            /\ invz' = invz
            /\ UNCHANGED visibilitytransforms
       ELSE /\ IF pargs.maxdist # None
               THEN \E dist \in [1..Len(visibilitytransforms.v) -> Distances] :
                      /\ invz' = Arr(dist)
                      /\ localtransforms' =
                            Arr(MaxdistFilter(visibilitytransforms.v, dist, pargs.maxdist.v))
               ELSE /\ invz' = invz
                    /\ localtransforms' = visibilitytransforms
            /\ visibilitytransforms' =
                  AttributeAfterLocal(visibilitytransforms, localtransforms')
            /\ IF IsTranslationOnly(pargs.translationonly)
               THEN /\ pc' = "kFRSearchArray"
                    /\ ret' = ret
               ELSE /\ pc' = "idle"
                    /\ ret' = Raised("pruneTransformations", "ValueError")
    /\ UNCHANGED <<rmodel, sceneVars, queryVars, pargs, rload, transdensity, previous,
                   lifeVars>>

\* lines 230-232: the neighbour counts, the threshold, the sort.
kFRSearchArray(Counts) ==
    /\ pc = "kFRSearchArray"
    /\ \E density \in Counts :
          /\ transdensity' = Arr(density)
          /\ \E result \in PrunedResults(localtransforms.v, density, pargs.numminneighs) :
                /\ ret' = Returned("pruneTransformations", Arr(result))
                /\ visibilitytransforms' =
                      AttributeAfterLocal(visibilitytransforms, Arr(result))
    /\ pc' = "idle"
    /\ UNCHANGED <<rmodel, sceneVars, queryVars, pargs, localtransforms, rload, invz,
                   previous, lifeVars>>

\* The answers the collaborators can give within the bounds.
DistanceValues == 0..MaxDist
CountArrays == [1..Len(localtransforms.v) -> 0..MaxCount]

\* The states pruning can start from: a fresh model or one holding up to
\* MaxCand candidates; the reachability model not yet loaded or held.
InitPrune ==
    /\ visibilitytransforms \in {None} \cup {Arr(Iota(n)) : n \in 0..MaxCand}
    /\ rmodel \in {None, Held}
    /\ AtRest
    /\ Settled

NextPrune ==
    \/ \E numminneighs \in 0..MaxCount, translationonly \in BOOLEAN,
          maxdist \in {None} \cup {Num(d) : d \in 1..MaxDist} :
          pruneTransformations(DefaultThresh, numminneighs, maxdist, translationonly)
    \/ rmodelLoad
    \/ ComputeNN(DistanceValues)
    \/ kFRSearchArray(CountArrays)

SpecPrune == InitPrune /\ [][NextPrune]_vars

\* pruneTransformations called again right after a call that returned, with
\* another numminneighs and everything else as before: the same candidate
\* set, thresh, maxdist and reachability index, so lines 223-230 compute the
\* same local visibilitytransforms and the same neighbour counts, and lines
\* 231-232 select and sort with the new numminneighs.  The call before is
\* kept for comparison.
pruneTransformationsAgain(numminneighs) ==
    /\ pc = "idle"
    /\ ret.op = "pruneTransformations"
    /\ ret.how = "return"
    /\ previous' = [numminneighs |-> pargs.numminneighs, val |-> ret.val]
    /\ pargs' = [pargs EXCEPT !.numminneighs = numminneighs]
    /\ rload' = "notcalled"
    /\ \E result \in PrunedResults(localtransforms.v, transdensity.v, numminneighs) :
          /\ ret' = Returned("pruneTransformations", Arr(result))
          /\ visibilitytransforms' =
                AttributeAfterLocal(visibilitytransforms, Arr(result))
    /\ pc' = "idle"
    /\ UNCHANGED <<rmodel, localtransforms, invz, transdensity, sceneVars, queryVars,
                   lifeVars>>

\* The distances the index answers in SpecAgain: within maxdist or not.
NearOrFar == {0, MaxDist}

\* Translation-only pruning without a maxdist or with the largest one, and
\* then again with any other numminneighs.
NextAgain ==
    \/ \E numminneighs \in 0..MaxCount, maxdist \in {None, Num(MaxDist)} :
          pruneTransformations(DefaultThresh, numminneighs, maxdist, TRUE)
    \/ rmodelLoad
    \/ ComputeNN(NearOrFar)
    \/ kFRSearchArray(CountArrays)
    \/ \E numminneighs \in 0..MaxCount : pruneTransformationsAgain(numminneighs)

SpecAgain == InitPrune /\ [][NextAgain]_vars

\* The pruning scenario with the default arguments: ScenarioPoses
\* candidates, neighbour counts around the default numminneighs, exactly
\* ScenarioDense of them at least numminneighs.
ScenarioCountArrays ==
    {d \in [1..Len(localtransforms.v) ->
                (DefaultNumMinNeighs - 1)..(DefaultNumMinNeighs + 1)] :
        Cardinality({k \in DOMAIN d : d[k] >= DefaultNumMinNeighs}) = ScenarioDense}

InitScenario ==
    /\ visibilitytransforms = Arr(Iota(ScenarioPoses))
    /\ rmodel \in {None, Held}
    /\ AtRest
    /\ Settled

NextScenario ==
    \/ pruneTransformations(DefaultThresh, DefaultNumMinNeighs, None, TRUE)
    \/ rmodelLoad
    \/ ComputeNN(DistanceValues)
    \/ kFRSearchArray(ScenarioCountArrays)

SpecScenario == InitScenario /\ [][NextScenario]_vars

---------------------------------------------------------------------------
\* has, preprocess, load, save (lines 82-111).

\* has (lines 82-83).
\* (variant: the length test left out)
Has_present(vt) == vt # None
Has(vt) == vt # None /\ Len(vt.v) > 0
has == Has(visibilitytransforms)

\* line 104: assert(self.manipname is None or self.manipname==manipname)
\* (variant: the assertion left out)
AssertionPasses_always(recorded, returned) == TRUE
AssertionPasses(recorded, returned) == recorded = None \/ recorded = returned

\* line 106: the sensors of the sensor robot that carry the recorded name.
SensorsNamed(sname) == {x \in SensorNames : x = sname}

\* preprocess (lines 101-111) with `returned` the name SetCameraAndTarget
\* answered: the exception it ends with, or "none".
PreprocessError(recorded, returned, sname) ==
    IF ~AssertionPasses(recorded, returned) THEN "AssertionError"
    ELSE IF SensorsNamed(sname) = {} THEN "IndexError"
    ELSE "none"

\* The `except e:` clause of load (line 96).  No variable e is bound by the
\* clause: the expression e is evaluated when an exception arrives, and it is
\* the float constant e that `from numpy import *` (line 20) brings in, which
\* is no exception class and matches nothing.  (Were the name not defined at
\* all, evaluating it would raise NameError; the call ends with an
\* exception either way.)
HandlerCatches(exc) == FALSE

\* How load ends when `exc` is raised inside its try block.
LoadEndsOn(exc) ==
    IF HandlerCatches(exc)
    THEN Returned("load", Bool(FALSE))
    ELSE Raised("load", exc)

\* load (lines 88-97).  OpenRAVEModel.load answers None for a missing file,
\* raises on a file it cannot read, and otherwise returns what was saved.
load ==
    /\ pc = "idle"
    /\ \/ /\ artifact = Missing
          /\ ret' = Returned("load", Bool(FALSE))
          /\ camLog' = None
          /\ UNCHANGED <<visibilitytransforms, fieldVars>>
       \/ /\ artifact = Unreadable
          /\ ret' = LoadEndsOn("IOError")
          /\ camLog' = None
          /\ UNCHANGED <<visibilitytransforms, fieldVars>>
       \/ /\ artifact = Malformed
          /\ ret' = LoadEndsOn("ValueError")
          /\ camLog' = None
          /\ UNCHANGED <<visibilitytransforms, fieldVars>>
       \/ /\ artifact.kind = "tuple"
          /\ visibilitytransforms' = artifact.visibilitytransforms
          /\ convexhull' = artifact.convexhull
          /\ KK' = artifact.KK
          /\ dims' = artifact.dims
          /\ preshapes' = artifact.preshapes
          /\ \E returned \in ManipNames :
                LET err == PreprocessError(manipname, returned, sensorname) IN
                /\ camLog' = [manipname |-> manipname, returned |-> returned]
                /\ IF err # "none"
                   THEN /\ ret' = LoadEndsOn(err)
                        /\ UNCHANGED <<manip, attachedsensor, ikmodel>>
                   ELSE /\ manip' = returned
                        /\ attachedsensor' = CHOOSE x \in SensorsNamed(sensorname) : TRUE
                        /\ ikmodel' = InverseKinematicsModel(ikmodel)
                        /\ ret' = Returned("load", Bool(Has(visibilitytransforms')))
          /\ UNCHANGED <<manipname, sensorname>>
    /\ pc' = "idle"
    /\ QueryLocalsGone
    /\ PruneLocalsGone
    /\ UNCHANGED <<rmodel, sceneVars, enabled, artifact, generateVars, generated>>

\* save (lines 98-99): the 5-tuple is built from the attributes (reading an
\* attribute that was never set raises AttributeError) and written.
save ==
    /\ pc = "idle"
    /\ IF KK = Unset \/ dims = Unset
       THEN /\ ret' = Raised("save", "AttributeError")
            /\ artifact' = artifact
       ELSE /\ artifact' = Tuple5(visibilitytransforms, convexhull, KK, dims, preshapes)
            /\ ret' = Returned("save", None)
    /\ pc' = "idle"
    /\ camLog' = None
    /\ QueryLocalsGone
    /\ PruneLocalsGone
    /\ UNCHANGED <<modelVars, fieldVars, sceneVars, enabled, generateVars, generated>>

---------------------------------------------------------------------------
\* generate (lines 130-156).

\* line 135: the bodies other than the robot and the target, with their flags.
SavedBodies(flags) ==
    [b \in {x \in Bodies : x # "robot" /\ x # "target"} |-> flags[b]]

\* lines 136-137: every saved body is disabled.
DisabledFlags(flags, saved) ==
    [b \in Bodies |-> IF b \in DOMAIN saved THEN FALSE ELSE flags[b]]

\* lines 154-156: the finally block gives every saved body its flag back.
\* (variant: no restoration)
RestoredFlags_none(flags, saved) == flags
RestoredFlags(flags, saved) ==
    [b \in Bodies |-> IF b \in DOMAIN saved THEN saved[b] ELSE flags[b]]

\* What the sensor reports (lines 142-144).
KKValue == [kind |-> "matrix"]
DimsValue == [kind |-> "shape"]

\* The preshapes a caller passes.
PreshapeInputs == {Arr(<<Joints(g)>>) : g \in 1..MaxPreshape}

\* lines 131-137: record the preshapes, preprocess, record the names, save
\* the other bodies' flags and disable them.
generate(newpreshapes) ==
    /\ pc = "idle"
    /\ preshapes' = newpreshapes
    /\ enabledAtCall' = enabled
    /\ generated' = None
    /\ \E returned \in ManipNames :
          LET err == PreprocessError(manipname, returned, sensorname) IN
          /\ camLog' = [manipname |-> manipname, returned |-> returned]
          /\ IF err # "none"
             THEN /\ ret' = Raised("generate", err)
                  /\ pc' = "idle"
                  /\ UNCHANGED <<manip, attachedsensor, ikmodel, sensorname, manipname,
                                 enabled, bodies>>
             ELSE /\ manip' = returned
                  /\ attachedsensor' = CHOOSE x \in SensorsNamed(sensorname) : TRUE
                  /\ ikmodel' = InverseKinematicsModel(ikmodel)
                  /\ sensorname' = attachedsensor'
                  /\ manipname' = manip'
                  /\ bodies' = SavedBodies(enabled)
                  /\ enabled' = DisabledFlags(enabled, bodies')
                  /\ ret' = NoCall
                  /\ pc' = "GetSensorData"
    /\ QueryLocalsGone
    /\ PruneLocalsGone
    /\ UNCHANGED <<modelVars, convexhull, KK, dims, sceneVars, artifact>>

\* lines 139-144: the sensor object, if the attached sensor has one, gives
\* KK and the image dimensions.
GetSensorData ==
    /\ pc = "GetSensorData"
    /\ \/ \* GetSensor() is None
          /\ pc' = "ProcessVisibilityExtents"
          /\ UNCHANGED <<KK, dims, enabled, ret>>
       \/ /\ KK' = KKValue
          /\ dims' = DimsValue
          /\ pc' = "ProcessVisibilityExtents"
          /\ UNCHANGED <<enabled, ret>>
       \/ \* the sensor raises
          /\ enabled' = RestoredFlags(enabled, bodies)
          /\ ret' = Raised("generate", "openrave_exception")
          /\ pc' = "idle"
          /\ UNCHANGED <<KK, dims>>
    /\ UNCHANGED <<modelVars, convexhull, preshapes, manipname, sensorname, manip,
                   attachedsensor, ikmodel, sceneVars, artifact, generateVars, mockVars,
                   queryVars, pruneVars>>

\* lines 148-152: self.visibilitytransforms is assigned what
\* ProcessVisibilityExtents answered, as it is.
\* (variant: the last pose of the answer is dropped)
StoredCandidates_filtered(answer) ==
    Arr(SubSeq(answer.v, 1, IF Len(answer.v) = 0 THEN 0 ELSE Len(answer.v) - 1))
StoredCandidates(answer) == answer

\* lines 145-152: with the gripper at the first preshape (the robot's state
\* is saved and restored around it) the candidate poses are produced.
ProcessVisibilityExtents ==
    /\ pc = "ProcessVisibilityExtents"
    /\ \/ \E n \in 0..MaxCand :
             /\ generated' = Arr(Iota(n))
             /\ visibilitytransforms' = StoredCandidates(generated')
             /\ pc' = "SetCameraTransforms"
             /\ UNCHANGED <<enabled, ret>>
       \/ \* the candidate generator raises
          /\ enabled' = RestoredFlags(enabled, bodies)
          /\ ret' = Raised("generate", "openrave_exception")
          /\ pc' = "idle"
          /\ UNCHANGED <<visibilitytransforms, generated>>
    /\ UNCHANGED <<rmodel, fieldVars, sceneVars, artifact, generateVars, camLog,
                   queryVars, pruneVars>>

\* lines 153-156: the camera transforms are handed over, and the finally
\* block runs.
SetCameraTransforms ==
    /\ pc = "SetCameraTransforms"
    /\ \/ ret' = Returned("generate", None)
       \/ ret' = Raised("generate", "openrave_exception")
    /\ enabled' = RestoredFlags(enabled, bodies)
    /\ pc' = "idle"
    /\ UNCHANGED <<modelVars, fieldVars, sceneVars, artifact, generateVars, mockVars,
                   queryVars, pruneVars>>

\* The model after construction, in an environment whose other bodies are
\* enabled or not, with no file yet or one that cannot be loaded.
Init ==
    /\ visibilitytransforms = None
    /\ rmodel = None
    /\ Constructed
    /\ AtRest
    /\ enabled \in {f \in [Bodies -> BOOLEAN] : f["robot"] /\ f["target"]}
    /\ enabledAtCall = enabled
    /\ artifact \in {Missing, Unreadable, Malformed}

Next ==
    \/ load
    \/ save
    \/ \E p \in PreshapeInputs : generate(p)
    \/ GetSensorData
    \/ ProcessVisibilityExtents
    \/ SetCameraTransforms

Spec == Init /\ [][Next]_vars

---------------------------------------------------------------------------
\* Claims about computeValidTransform, read off the collaborators' logs.

\* A query has ended (by a return or by an exception).
QueryEnded == pc = "idle" /\ ret.op = "computeValidTransform"
QueryReturned == QueryEnded /\ ret.how = "return"

\* The k-th examined candidate: what the solver and the oracle answered.
SolvedAt(k) == ikLog[k].sol.kind = "joints"
OracleSaid(i, answer) == \E v \in 1..Len(visLog) : visLog[v].i = i /\ visLog[v].visible = answer
AcceptedAt(k) ==
    SolvedAt(k) /\ (args.computevisibility => OracleSaid(ikLog[k].i, "yes"))
RejectedAt(k) ==
    \/ ikLog[k].sol = None
    \/ SolvedAt(k) /\ args.computevisibility /\ OracleSaid(ikLog[k].i, "no")

\* The accepted (joint configuration, candidate index) pairs, in scan order.
AcceptedPairs ==
    LET acc == SelectSeq(ikLog, LAMBDA e : e.sol.kind = "joints"
                            /\ (args.computevisibility => OracleSaid(e.i, "yes")))
    IN  [k \in 1..Len(acc) |-> <<acc[k].sol, acc[k].i>>]

\* The scan examined the candidates in the drawn order, without gaps.
ExaminedInOrder ==
    /\ Len(ikLog) <= Len(order)
    /\ \A k \in 1..Len(ikLog) : ikLog[k].i = order[k]

\* C1 (as claimed): a query with returnall=True that returns has scanned
\* every candidate and returns the list of all accepted (joint
\* configuration, candidate index) pairs in scan order.  Stated for the
\* queries that accepted at least one candidate, where the list is not empty.
C1_ExhaustiveReturnsAllAccepted ==
    (QueryReturned /\ args.returnall /\ Len(AcceptedPairs) > 0) =>
        /\ Len(ikLog) = Len(order)
        /\ ExaminedInOrder
        /\ ret.val = List(AcceptedPairs)

\* C2: a query with returnall=False that returns a value other than None
\* returns exactly one pair: the first candidate in scan order that the
\* solver solved and (with computevisibility) the oracle saw; its index is
\* the candidate's index in the stored set (order[k], not k); every
\* candidate before it was rejected and none after it was examined.  It
\* returns None only after rejecting every candidate.
C2_FirstFeasible ==
    (QueryReturned /\ ~args.returnall) =>
        /\ ExaminedInOrder
        /\ IF ret.val = None
           THEN /\ Len(ikLog) = Len(order)
                /\ \A k \in 1..Len(ikLog) : RejectedAt(k)
           ELSE LET k == Len(ikLog) IN
                /\ k >= 1
                /\ AcceptedAt(k)
                /\ \A j \in 1..(k-1) : RejectedAt(j)
                /\ ret.val = List(<< <<ikLog[k].sol, order[k]>> >>)
                /\ \A v \in 1..Len(visLog) : \E j \in 1..k : visLog[v].i = order[j]

\* A first-feasible query with a random order returned the candidate at the
\* third position, whose index differs from its position, after one
\* rejection by the solver and one by the oracle.
C2_Witness ==
    /\ QueryReturned /\ ~args.returnall /\ args.randomize /\ args.computevisibility
    /\ Len(ikLog) = 3
    /\ order[3] # 3
    /\ ikLog[1].sol = None
    /\ SolvedAt(2) /\ OracleSaid(order[2], "no")
    /\ ret.val = List(<< <<IKSolutionFor(order[3]), order[3]>> >>)

\* C6: a rejection never ends the scan: a query that returns right after a
\* rejected candidate has examined every candidate; and a query on a model
\* holding a candidate set in which every examined candidate was rejected
\* (no collaborator raised) returns, and returns None or an empty list.
C6_NoFeasibleIsNotAnError ==
    /\ (QueryReturned /\ Len(ikLog) >= 1 /\ RejectedAt(Len(ikLog))) =>
           (Len(ikLog) = Len(order) /\ ExaminedInOrder)
    /\ (QueryEnded /\ visibilitytransforms # None
              /\ \A k \in 1..Len(ikLog) : RejectedAt(k)) =>
           /\ ret.how = "return"
           /\ ret.val \in {None, List(<<>>)}
           /\ Len(ikLog) = Len(visibilitytransforms.v)

\* An exhaustive query over three candidates rejected all of them, one by
\* the solver and one by the oracle, and returned None.
C6_Witness ==
    /\ QueryReturned /\ args.returnall
    /\ Len(ikLog) = 3
    /\ \A k \in 1..3 : RejectedAt(k)
    /\ \E k \in 1..3 : ikLog[k].sol = None
    /\ \E k \in 1..3 : SolvedAt(k)
    /\ ret.val = None

\* C7, the state part: every oracle call is for a candidate the solver had
\* solved; a candidate without a solution has no oracle call; and with
\* computevisibility=False the oracle is never called.
C7_OracleOnlyAfterSolution ==
    /\ \A v \in 1..Len(visLog) :
          \E k \in 1..Len(ikLog) : ikLog[k].i = visLog[v].i /\ SolvedAt(k)
    /\ \A k \in 1..Len(ikLog) :
          ikLog[k].sol = None => \A v \in 1..Len(visLog) : visLog[v].i # ikLog[k].i
    /\ ~args.computevisibility => visLog = <<>>

\* C7, the step part: the step in which the solver answers "no solution"
\* leaves the robot's joint values as they were and calls no oracle; a step
\* that calls the oracle is taken with the solution of the current candidate.
C7_NoSolutionStep ==
    /\ (Len(ikLog') = Len(ikLog) + 1 /\ ikLog'[Len(ikLog')].sol = None) =>
           (UNCHANGED sceneVars /\ visLog' = visLog)
    /\ (Len(visLog') = Len(visLog) + 1) =>
           /\ HasSolution(s) /\ s = IKSolutionFor(visLog'[Len(visLog')].i)
           /\ ikLog' = ikLog /\ ikLog[Len(ikLog)].i = visLog'[Len(visLog')].i

\* C7: the feasibility short-circuit: in every state of a query each
\* oracle call so far was made for a candidate the solver had solved, no
\* candidate without a solution has an oracle call, and with
\* computevisibility=False there is no oracle call; and in every step, a
\* "no solution" answer leaves the robot's joint values unchanged and an
\* oracle call is made with the current candidate's solution in hand.
C7_ShortCircuit == [](C7_OracleOnlyAfterSolution) /\ [][C7_NoSolutionStep]_vars

\* A query in which the solver had no solution for the first candidate and
\* the oracle was then called for the second one.
C7_Witness ==
    /\ Len(ikLog) = 2 /\ ikLog[1].sol = None /\ SolvedAt(2)
    /\ Len(visLog) = 1 /\ visLog[1].i = ikLog[2].i
    /\ armjoints = ikLog[2].sol

---------------------------------------------------------------------------
\* Claims about pruneTransformations.

\* A call of pruneTransformations has ended, on a model that holds a
\* candidate set.
PruneEnded ==
    /\ pc = "idle" /\ ret.op = "pruneTransformations"
    /\ visibilitytransforms # None

\* The fallback branch was taken: no reachability model was held and
\* loading one failed.
IndexAbsent == rload = "failed"

\* C3 (as claimed): when no reachability index is held and loading the
\* reachability model fails, pruneTransformations returns the candidate
\* set unchanged (same elements, same order) and raises no error.
C3_IdentityFallback ==
    (PruneEnded /\ IndexAbsent) =>
        ret = Returned("pruneTransformations", Arr(visibilitytransforms.v))

PassesMaxdist(k) == pargs.maxdist = None \/ invz.v[k] < pargs.maxdist.v
RankAmongPassing(k) == Cardinality({j \in 1..k : PassesMaxdist(j)})
\* The neighbour count the index answered for stored candidate k.
CountOf(k) == transdensity.v[RankAmongPassing(k)]
PositionOf(pose) == CHOOSE k \in 1..Len(visibilitytransforms.v) : visibilitytransforms.v[k] = pose

\* C9: translation-only pruning with a reachability index present returns
\* exactly the candidates that pass the maxdist pre-filter and whose
\* neighbour count is strictly greater than numminneighs, each once, in
\* order of non-increasing neighbour count; all are stored candidates.
C9_DensityPruning ==
    (PruneEnded /\ pargs.translationonly /\ ~IndexAbsent) =>
        /\ ret.how = "return" /\ ret.val.kind = "array"
        /\ LET out == ret.val.v
               vt == visibilitytransforms.v
               kept == {k \in 1..Len(vt) : PassesMaxdist(k) /\ CountOf(k) > pargs.numminneighs}
           IN  /\ Range(out) = {vt[k] : k \in kept}
               /\ Len(out) = Cardinality(kept)
               /\ \A a, b \in 1..Len(out) :
                     a < b => CountOf(PositionOf(out[a])) >= CountOf(PositionOf(out[b]))
               /\ Range(out) \subseteq Range(vt)

\* Pruning three candidates kept two: the one whose count equals
\* numminneighs was dropped, and the denser of the other two, stored later,
\* comes first in the result.
C9_Witness ==
    /\ PruneEnded /\ pargs.translationonly /\ ~IndexAbsent /\ pargs.maxdist = None
    /\ Len(visibilitytransforms.v) = 3
    /\ ret.how = "return"
    /\ Len(ret.val.v) = 2
    /\ \E k \in 1..3 : transdensity.v[k] = pargs.numminneighs
    /\ PositionOf(ret.val.v[1]) > PositionOf(ret.val.v[2])
    /\ CountOf(PositionOf(ret.val.v[1])) > CountOf(PositionOf(ret.val.v[2]))

\* The neighbour counts of the scenario's result are in non-increasing order.
ScenarioSorted(out) ==
    \A a, b \in 1..Len(out) :
        a < b => CountOf(PositionOf(out[a])) >= CountOf(PositionOf(out[b]))

\* C10 (as claimed): with the default arguments, of ScenarioPoses poses of
\* which exactly ScenarioDense have a neighbour count >= 10, pruning returns
\* exactly those, sorted by descending neighbour count.
C10_KeepsCountsOfAtLeastTen ==
    (PruneEnded /\ ~IndexAbsent) =>
        /\ ret.how = "return"
        /\ LET out == ret.val.v
               vt == visibilitytransforms.v
               dense == {k \in 1..Len(vt) : CountOf(k) >= DefaultNumMinNeighs}
           IN  /\ Range(out) = {vt[k] : k \in dense}
               /\ Len(out) = ScenarioDense
               /\ ScenarioSorted(out)

\* C10 (amended): in that scenario pruning returns exactly the poses whose
\* neighbour count is greater than 10, sorted by descending neighbour
\* count; a pose with a count of exactly 10 is dropped, so all ScenarioDense
\* poses are returned only when none of them has a count of exactly 10.
C10_KeepsCountsAboveTen ==
    (PruneEnded /\ ~IndexAbsent) =>
        /\ ret.how = "return"
        /\ LET out == ret.val.v
               vt == visibilitytransforms.v
               above == {k \in 1..Len(vt) : CountOf(k) > DefaultNumMinNeighs}
               exact == {k \in 1..Len(vt) : CountOf(k) = DefaultNumMinNeighs}
           IN  /\ Range(out) = {vt[k] : k \in above}
               /\ Len(out) = Cardinality(above)
               /\ Len(out) = ScenarioDense - Cardinality(exact)
               /\ ScenarioSorted(out)

\* The scenario with one pose at a count of exactly 10: pruning returned the
\* other dense poses only.
C10_Witness ==
    /\ PruneEnded /\ ~IndexAbsent /\ ret.how = "return"
    /\ pargs.numminneighs = DefaultNumMinNeighs
    /\ Len(visibilitytransforms.v) = ScenarioPoses
    /\ Cardinality({k \in 1..ScenarioPoses : CountOf(k) = DefaultNumMinNeighs}) = 1
    /\ Len(ret.val.v) = ScenarioDense - 1

---------------------------------------------------------------------------
\* Claims about load and generate.

\* C4 (as claimed): load never ends with an exception, and for every
\* failure of the persistence collaborator (no file, a file that cannot be
\* read, an object that is not the 5-tuple) it returns False.
C4_LoadNeverRaises ==
    (pc = "idle" /\ ret.op = "load") =>
        /\ ret.how = "return"
        /\ artifact.kind \in {"missing", "unreadable", "malformed"} =>
               ret.val = Bool(FALSE)

\* generate is between its call and its end.
Generating == pc \in {"GetSensorData", "ProcessVisibilityExtents", "SetCameraTransforms"}

\* C5: while generate produces the candidates every body other than the
\* robot and the target is disabled and the robot's and the target's flags
\* are as they were at the call; when generate has ended, by a return or by
\* an exception, every body's flag is as it was at the call.
C5_FlagsRestored ==
    /\ Generating =>
          /\ \A b \in Bodies \ {"robot", "target"} : ~enabled[b]
          /\ enabled["robot"] = enabledAtCall["robot"]
          /\ enabled["target"] = enabledAtCall["target"]
    /\ (pc = "idle" /\ ret.op = "generate") => enabled = enabledAtCall

\* generate ended by an exception of the candidate generator (the sensor had
\* been read, no candidate set was stored), in an environment with one other
\* body enabled and one disabled, and both have their flags back.
C5_Witness ==
    /\ pc = "idle" /\ ret = Raised("generate", "openrave_exception")
    /\ KK = KKValue /\ visibilitytransforms = None
    /\ enabled["body1"] /\ ~enabled["body2"]
    /\ bodies = [b \in {"body1", "body2"} |-> enabled[b]]

---------------------------------------------------------------------------
\* Claims about the persistence round trip.

\* A call of load has ended that found a saved 5-tuple.
LoadedTuple == pc = "idle" /\ ret.op = "load" /\ artifact.kind = "tuple"

---------------------------------------------------------------------------
\* Queries and pruning in any order on one model: a fresh model, or one that
\* generate populated, with or without the camera intrinsics (the attached
\* sensor had a sensor object or not).  Pruning draws every argument; queries
\* check collisions and scan in stored order.
InitFrame ==
    /\ visibilitytransforms \in {None} \cup {Arr(Iota(n)) : n \in 0..MaxCand}
    /\ rmodel \in {None, Held}
    /\ AtRest
    /\ convexhull = None
    /\ \/ KK = Unset /\ dims = Unset
       \/ KK = KKValue /\ dims = DimsValue
    /\ preshapes = IF visibilitytransforms = None /\ KK = Unset
                   THEN None ELSE Arr(<<Joints(0)>>)
    /\ manipname = Name("arm1")
    /\ manip = manipname
    /\ sensorname \in SensorNames
    /\ attachedsensor = sensorname
    /\ ikmodel = InverseKinematicsModel(None)
    /\ bodies = <<>>
    /\ camLog = None
    /\ generated = None
    /\ enabled = [b \in Bodies |-> TRUE]
    /\ enabledAtCall = enabled
    /\ artifact = Missing

NextFrame ==
    \/ \E returnall, computevisibility \in BOOLEAN :
          computeValidTransform(returnall, TRUE, computevisibility, FALSE)
    \/ FindIKSolution
    \/ ComputeVisibility
    \/ ScanExhausted
    \/ NextPrune

SpecFrame == InitFrame /\ [][NextFrame]_vars

---------------------------------------------------------------------------
\* Every operation of the model, in any order, on one model object: a fresh
\* model without a recorded manipulator name, every body enabled, no file.
\* Queries check collisions, scan in stored order and leave the visibility
\* test out; pruning takes the thresholds below and no maxdist, and the
\* index answers one of two neighbour counts for each pose.  (SpecQuery and
\* SpecPrune draw every argument.)
InitAll ==
    /\ Init
    /\ enabled = [b \in Bodies |-> TRUE]
    /\ artifact = Missing
    /\ manipname = None
    /\ manip = Name("arm1")

SparseOrDense == [1..Len(localtransforms.v) -> {0, MaxCount}]

NextAll ==
    \/ Next
    \/ \E returnall \in BOOLEAN :
          computeValidTransform(returnall, TRUE, FALSE, FALSE)
    \/ FindIKSolution
    \/ ComputeVisibility
    \/ ScanExhausted
    \/ \E translationonly \in BOOLEAN :
          pruneTransformations(DefaultThresh, 1, None, translationonly)
    \/ rmodelLoad
    \/ ComputeNN(DistanceValues)
    \/ kFRSearchArray(SparseOrDense)

SpecAll == InitAll /\ [][NextAll]_vars

---------------------------------------------------------------------------
\* Claims about what generate stores.

\* generate has returned normally.
GenerateReturned == pc = "idle" /\ ret = Returned("generate", None)

\* C12 (as claimed): when generate has returned, the IK solver was asked
\* about every generated candidate, every stored candidate is one the solver
\* solved, and has() is true.
C12_GenerateFilters ==
    GenerateReturned =>
        /\ \A j \in 1..Len(generated.v) : \E k \in 1..Len(ikLog) : ikLog[k].i = j
        /\ \A j \in 1..Len(visibilitytransforms.v) :
              \E k \in 1..Len(ikLog) :
                  ikLog[k].i = visibilitytransforms.v[j] /\ SolvedAt(k)
        /\ has

\* C12 (amended): generate stores the Candidate Generator's output as it
\* is: while generate runs and when it has returned, neither the IK solver
\* nor the visibility oracle has been called; when it has returned the
\* stored candidate set equals what the generator answered (same elements,
\* same order), and has() is true exactly when that answer is not empty.
C12_GenerateStoresGeneratorOutput ==
    /\ (Generating \/ GenerateReturned) => (ikLog = <<>> /\ visLog = <<>>)
    /\ GenerateReturned =>
          /\ generated # None
          /\ visibilitytransforms = generated
          /\ has <=> Len(generated.v) > 0

\* generate returned on a model that held one candidate loaded from its
\* file: the three candidates the generator answered are stored, and no
\* solver call was made.
C12_Witness ==
    /\ GenerateReturned
    /\ artifact.kind = "tuple" /\ artifact.visibilitytransforms = Arr(Iota(1))
    /\ generated = Arr(Iota(3))
    /\ visibilitytransforms = Arr(Iota(3))
    /\ ikLog = <<>>

---------------------------------------------------------------------------
\* Claims about the lifecycle state.

\* The stored candidate set is present and not empty.
Populated == visibilitytransforms # None /\ Len(visibilitytransforms.v) > 0

\* No operation has been called on the model yet.
Fresh == pc = "idle" /\ ret = NoCall

\* A call of load has ended.
LoadEnded == pc = "idle" /\ ret.op = "load"

\* C13 (as claimed): has() is true exactly when the model is Populated; it
\* is false on a fresh model and after a load that found no artifact; and a
\* load that returns a value returns exactly has().
C13_LoadReturnsHas ==
    /\ has <=> Populated
    /\ Fresh => ~has
    /\ (LoadEnded /\ artifact = Missing) => ~has
    /\ (LoadEnded /\ ret.how = "return") => ret.val = Bool(has)

\* C13 (amended), the state part: has() is true exactly when the model is
\* Populated and is false on a fresh model; a load that found an artifact and
\* returns a value returns exactly has(); a load that found no artifact
\* returns False.
C13_HasIsPopulated ==
    /\ has <=> Populated
    /\ Fresh => ~has
    /\ (LoadEnded /\ artifact.kind = "tuple" /\ ret.how = "return") => ret.val = Bool(has)
    /\ (LoadEnded /\ artifact = Missing) => ret = Returned("load", Bool(FALSE))

\* C13 (amended), the step part: a load that finds no artifact leaves the
\* stored candidate set, and so has(), as it was.
C13_MissingArtifactStep ==
    (pc = "idle" /\ pc' = "idle" /\ ret'.op = "load" /\ artifact = Missing) =>
        (visibilitytransforms' = visibilitytransforms
            /\ Has(visibilitytransforms') = Has(visibilitytransforms))

\* C13 (amended): after any sequence of operations has() is true exactly
\* when the stored candidate set is present and not empty; it is false on a
\* fresh model; a load that found an artifact and returns a value returns
\* exactly has(); a load that found no artifact returns False and leaves
\* has() as it was, true on a model that generate had populated.
C13_Lifecycle == [](C13_HasIsPopulated) /\ [][C13_MissingArtifactStep]_vars

\* A model that generate populated, with nothing saved: load found no
\* artifact and returned False, and has() is true.
C13_Witness ==
    /\ LoadEnded /\ artifact = Missing
    /\ ret = Returned("load", Bool(FALSE))
    /\ has /\ Len(visibilitytransforms.v) = 2
    /\ rmodel = Held

---------------------------------------------------------------------------
\* Claims about pruning with two thresholds.

\* Two calls in a row on the same candidate set and index have returned.
TwoPrunings ==
    /\ pc = "idle" /\ ret.op = "pruneTransformations" /\ ret.how = "return"
    /\ previous # None

\* Poses of b are poses of a, and b is no longer than a.
SubsetNoLarger(b, a) == Range(b) \subseteq Range(a) /\ Len(b) <= Len(a)

\* C14: for a fixed candidate set, reachability index, thresh and maxdist,
\* of two calls of pruneTransformations the one with the larger (or equal)
\* numminneighs returns a subset of what the other returns, and no more
\* poses.
C14_PruningMonotone ==
    TwoPrunings =>
        /\ previous.numminneighs <= pargs.numminneighs =>
               SubsetNoLarger(ret.val.v, previous.val.v)
        /\ pargs.numminneighs <= previous.numminneighs =>
               SubsetNoLarger(previous.val.v, ret.val.v)

\* Three candidates, two of which pass the maxdist pre-filter: with
\* numminneighs=0 both were returned, and with numminneighs=1 on the same
\* index only one of them.
C14_Witness ==
    /\ TwoPrunings
    /\ Len(visibilitytransforms.v) = 3
    /\ pargs.maxdist # None /\ Len(localtransforms.v) = 2
    /\ previous.numminneighs = 0 /\ Len(previous.val.v) = 2
    /\ pargs.numminneighs = 1 /\ Len(ret.val.v) = 1

---------------------------------------------------------------------------
\* Claims about the scene during and after a query.

\* The joint values of the robot before any query: the robot is at rest
\* whenever no call is in progress.
JointsAtRest == <<Joints(0), Joints(0)>>

\* C15: when computeValidTransform has ended, in either mode, with or
\* without an accepted candidate, or by an exception of the IK solver or
\* the visibility oracle, the robot's joint values are those from before the
\* call; during the scan, when the visibility test is due, the arm joints
\* are at the IK solution of the candidate in hand.
C15_SceneUnchanged ==
    /\ QueryEnded =>
          /\ <<armjoints, gripperjoints>> = savedjoints
          /\ <<armjoints, gripperjoints>> = JointsAtRest
    /\ pc = "ComputeVisibility" =>
          /\ armjoints = IKSolutionFor(CandidateAt(order, pos))
          /\ armjoints # savedjoints[1]

\* An exhaustive query ended by an exception of the visibility oracle on the
\* second solved candidate, after the first one was accepted: the arm joints
\* had been set to two IK solutions, and they are back at their values from
\* before the call.
C15_Witness ==
    /\ QueryEnded /\ args.returnall
    /\ ret = Raised("computeValidTransform", "openrave_exception")
    /\ Len(visLog) = 2
    /\ visLog[1].visible = "yes" /\ visLog[1].arm = IKSolutionFor(visLog[1].i)
    /\ visLog[2].visible = "raise" /\ visLog[2].arm = IKSolutionFor(visLog[2].i)
    /\ armjoints = Joints(0)

\* C16, the state part: in every state of a query the gripper joint values
\* are those from the start of the call, every call of the visibility
\* oracle in the query saw that gripper shape, and saw the arm joints at the
\* candidate's IK solution.
C16_GripperAsAtStart ==
    /\ gripperjoints = savedjoints[2]
    /\ \A v \in 1..Len(visLog) :
          /\ visLog[v].gripper = savedjoints[2]
          /\ visLog[v].arm = IKSolutionFor(visLog[v].i)

\* C16, the step part: the step that writes an IK solution writes it to the
\* arm joints and leaves the gripper joints alone.
C16_ArmJointsOnlyStep ==
    (Len(ikLog') = Len(ikLog) + 1 /\ ikLog'[Len(ikLog')].sol.kind = "joints") =>
        (armjoints' = ikLog'[Len(ikLog')].sol /\ gripperjoints' = gripperjoints)

\* C16: one gripper shape per query: in every state reached during
\* computeValidTransform the gripper joint values equal their values at the
\* start of the call; an IK solution, accepted or rejected by the oracle
\* afterwards, is written to the arm joints only; so every oracle call of
\* one query sees the same gripper shape.
C16_FixedGripperShape == [](C16_GripperAsAtStart) /\ [][C16_ArmJointsOnlyStep]_vars

\* A query in which the oracle rejected one IK solution and accepted
\* another: the two calls saw different arm joint values and the same
\* gripper joint values.
C16_Witness ==
    /\ Len(visLog) = 2
    /\ visLog[1].visible = "no" /\ visLog[2].visible = "yes"
    /\ visLog[1].arm # visLog[2].arm
    /\ visLog[1].gripper = visLog[2].gripper
    /\ visLog[2].gripper = savedjoints[2]

---------------------------------------------------------------------------
\* Claims about what queries and pruning leave alone.

\* C17: computeValidTransform and pruneTransformations, in every step of
\* every branch (the maxdist pre-filter, the fallback and the error branches
\* included), leave the model's stored candidate set, its preshapes and its
\* camera intrinsics and image dimensions unchanged; pruneTransformations
\* returns its result and does not store it.
C17_StoredSetUntouched ==
    [][/\ visibilitytransforms' = visibilitytransforms
       /\ preshapes' = preshapes
       /\ KK' = KK
       /\ dims' = dims]_vars

\* Pruning of three stored candidates returned one of them (the maxdist
\* pre-filter dropped one, the neighbour count another), and the model still
\* holds the three candidates and its camera intrinsics.
C17_Witness ==
    /\ PruneEnded /\ ret.how = "return"
    /\ pargs.maxdist # None
    /\ Len(localtransforms.v) = 2
    /\ Len(ret.val.v) = 1
    /\ visibilitytransforms = Arr(Iota(3))
    /\ KK = KKValue

---------------------------------------------------------------------------
\* Claims about preprocess.

\* The step is a call of load or generate in which preprocess ran: the call
\* of SetCameraAndTarget is in the log.
PreprocessRan == pc = "idle" /\ camLog' # None

\* C18, the step: preprocess is given the recorded manipulator name; when
\* that name is not None and differs from the name SetCameraAndTarget
\* answers, the call ends with AssertionError and the active manipulator,
\* the bound sensor and the IK model are as before; otherwise the call does
\* not end with AssertionError, and the answered manipulator is made active
\* and a new IK model is made.
C18_AssertionStep ==
    PreprocessRan =>
        /\ camLog'.manipname = manipname
        /\ IF manipname # None /\ manipname # camLog'.returned
           THEN /\ ret'.how = "raise"
                /\ ret'.val = Exception("AssertionError")
                /\ pc' = "idle"
                /\ manip' = manip
                /\ attachedsensor' = attachedsensor
                /\ ikmodel' = ikmodel
           ELSE /\ ret'.val # Exception("AssertionError")
                /\ manip' = camLog'.returned
                /\ ikmodel' # ikmodel

\* C18: whenever preprocess runs with a recorded manipulator name that is
\* not None and differs from the name SetCameraAndTarget returns, it fails
\* with an assertion before the active manipulator, the bound sensor or the
\* IK model is changed; with a recorded name of None or an equal name it
\* does not fail on this check.
C18_FatalAssertion == [][C18_AssertionStep]_vars

\* load read a saved tuple on a model that had recorded arm1, and
\* SetCameraAndTarget answered arm2: load ended with AssertionError with arm1
\* still active, after the saved candidate set was assigned.
C18_Witness ==
    /\ pc = "idle" /\ ret = Raised("load", "AssertionError")
    /\ camLog = [manipname |-> Name("arm1"), returned |-> Name("arm2")]
    /\ manipname = Name("arm1") /\ manip = Name("arm1")
    /\ artifact.kind = "tuple"
    /\ visibilitytransforms = artifact.visibilitytransforms
    /\ visibilitytransforms = Arr(Iota(2))

---------------------------------------------------------------------------
\* Claims about the fields save reads.

\* C19 (as claimed): when generate has returned normally on a model that
\* was never loaded, the five fields of the persisted tuple (candidate set,
\* convex hull, KK, dims, preshapes) are all defined, whether the attached
\* sensor reported a sensor object or not.  (A model whose file holds no
\* saved tuple has never been loaded from one.)
C19_PersistedFieldsDefined ==
    (GenerateReturned /\ artifact.kind # "tuple") =>
        /\ visibilitytransforms # Unset
        /\ convexhull # Unset
        /\ KK # Unset
        /\ dims # Unset
        /\ preshapes # Unset

=============================================================================
